---- MODULE Spec2Model ----
(***************************************************************************)
(* Model of src/app.py: the readings and alerts tables, the add_reading    *)
(* handler with its anomaly check (check_abnormal), the alert lifecycle    *)
(* handlers (acknowledge_alert, close_alert) and the dashboard (home).     *)
(*                                                                         *)
(* Numbers.  SQLite REAL / Python float values are modelled as exact       *)
(* fixed-point numbers: a reading's opening, closing and consumption are   *)
(* integers counting thousandths (1000 = 1.0).  round(x, 2) yields an       *)
(* integer counting hundredths (average, dashboard sums) or hundredths of  *)
(* a percent (percentage).  Where x lies exactly half way between two      *)
(* hundredths the float's binary representation decides the direction      *)
(* (round(0.005,2) = 0.01 but round(0.015,2) = 0.01), so the model allows  *)
(* both neighbours.                                                        *)
(*                                                                         *)
(* Tables.  A readings row keeps id, meter_id, date, opening, closing and   *)
(* consumption; entered_by, employee_id and image are written once and     *)
(* read by no query of the handlers modelled here.  The meters table is     *)
(* not consulted when a reading is stored.                                  *)
(*                                                                         *)
(* Dates.  strftime("%Y-%m-%d %H:%M") is modelled as the tuple             *)
(* <<month, day>>, the part of the string the queries look at              *)
(* (SUBSTR(date,1,7) is its first component, SUBSTR(date,1,10) the whole). *)
(***************************************************************************)
EXTENDS Integers, Sequences, FiniteSets, TLC

VARIABLES readings, alerts, now, pc, req_meter, today_val, avg, checked, last

vars == <<readings, alerts, now, pc, req_meter, today_val, avg, checked, last>>

\* ---------------------------------------------------------------- bounds
MaxReadings == 3
MaxSeqReadings == 7
SeqHistoryLen == 7
MaxDashReadings == 3
MaxDashDay == 3
HistoryDays == 6
FirstDay == 28
MonthLen == 31

Procs == {1, 2}
Meters == {"M1", "M2"}
SeqMeters == {"M1"}
AlertIds == {1, 2}
NULL == "NULL"

\* opening/closing pairs a request may carry (thousandths)
Inputs == {<<0, 4>>, <<0, 1000>>, <<1000, 0>>}
SeqInputs == {<<0, 10000>>, <<0, 12000>>, <<0, 20000>>, <<10000, 0>>}
DashInputs == {<<0, 4>>, <<0, 1004>>}

\* ------------------------------------------------------------- arithmetic
Abs(x) == IF x < 0 THEN -x ELSE x

RECURSIVE SumSeq(_)
SumSeq(s) == IF s = <<>> THEN 0 ELSE Head(s) + SumSeq(Tail(s))

\* the integers nearest to num/den (den > 0); two of them on an exact tie
Round2(num, den) ==
    LET q == num \div den
        r == num - q * den
    IN  IF 2 * r < den THEN {q}
        ELSE IF 2 * r > den THEN {q + 1}
        ELSE {q, q + 1}

\* datetime.now().strftime(...): the date string of clock value t
DateOf(t) ==
    LET n == t + FirstDay - 1
        m == (n \div MonthLen) + 1
        d == (n % MonthLen) + 1
    IN  <<m, d>>
MonthOf(date) == date[1]

\* ------------------------------------------------------------------ schema
AlertColumns == {"id", "meter_id", "date", "consumption", "average", "percentage", "status"}

Reverse(s) == [i \in 1..Len(s) |-> s[Len(s) + 1 - i]]

\* LIMIT lim OFFSET off
LimitOffset(s, lim, off) ==
    LET left == IF Len(s) < off THEN 0 ELSE Len(s) - off
        n == IF left < lim THEN left ELSE lim
    IN  [i \in 1..n |-> s[i + off]]

Column(rows, c) == [i \in 1..Len(rows) |-> rows[i][c]]

\* ---------------------------------------------------------- check_abnormal
WindowSize == 7
Threshold == 30
DailyLimit == 7

\* variant: the WHERE meter_id=? clause left out
MeterRowsDescAll(rs, m) == Reverse(rs)

\* SELECT ... FROM readings WHERE meter_id=? ORDER BY id DESC
MeterRowsDesc(rs, m) == Reverse(SelectSeq(rs, LAMBDA r : r.meter_id = m))

\* ... LIMIT 1: the last reading of the meter (no row or one row)
LastReading(rs, m) == LimitOffset(MeterRowsDesc(rs, m), 1, 0)

\* variant: OFFSET 1 left out, the last reading is part of its own average
AvgWindowInclusive(rs, m) == LimitOffset(MeterRowsDesc(rs, m), WindowSize, 0)

\* ... LIMIT 7 OFFSET 1: the rows the average is taken over
AvgWindow(rs, m) == LimitOffset(MeterRowsDesc(rs, m), WindowSize, 1)

\* AVG(consumption) as the fraction <<sum, count>>; NULL (no row) becomes 0
AvgOf(rows) ==
    IF rows = <<>> THEN <<0, 1>>
    ELSE <<SumSeq(Column(rows, "consumption")), Len(rows)>>

\* variant: the deviation taken in either direction, abs(percent) >= 30
IsAbnormalEitherWay(tv, a) ==
    /\ ~(a[1] <= 0)
    /\ Abs(tv * a[2] - a[1]) * 100 >= Threshold * a[1]

\* not (avg <= 0) and ((today_val - avg) / avg) * 100 >= 30
IsAbnormal(tv, a) ==
    /\ ~(a[1] <= 0)
    /\ (tv * a[2] - a[1]) * 100 >= Threshold * a[1]

\* round(avg, 2), in hundredths
RoundedAvg(a) == Round2(a[1], 10 * a[2])

\* round(percent, 2), in hundredths of a percent
RoundedPercent(tv, a) == Round2((tv * a[2] - a[1]) * 10000, a[1])

\* variant: the status value left out of the INSERT
NewAlertNoStatus(id, m, date, tv, ra, rp) ==
    [id |-> id, meter_id |-> m, date |-> date, consumption |-> tv,
     average |-> ra, percentage |-> rp, status |-> NULL]

\* the row INSERT INTO alerts writes
NewAlert(id, m, date, tv, ra, rp) ==
    [id |-> id, meter_id |-> m, date |-> date, consumption |-> tv,
     average |-> ra, percentage |-> rp, status |-> "OPEN"]

\* variant: the difference taken the wrong way round
NewReadingSwapped(id, m, date, opening, closing) ==
    [id |-> id, meter_id |-> m, date |-> date, opening |-> opening,
     closing |-> closing, consumption |-> opening - closing]

\* the row INSERT INTO readings writes
NewReading(id, m, date, opening, closing) ==
    [id |-> id, meter_id |-> m, date |-> date, opening |-> opening,
     closing |-> closing, consumption |-> closing - opening]

\* --------------------------------------------------------------- dashboard
DateLess(a, b) == a[1] < b[1] \/ (a[1] = b[1] /\ a[2] < b[2])

\* ORDER BY key DESC over a set of distinct keys
RECURSIVE SortDesc(_)
SortDesc(S) ==
    IF S = {} THEN <<>>
    ELSE LET mx == CHOOSE x \in S : \A y \in S : ~DateLess(x, y)
         IN  <<mx>> \o SortDesc(S \ {mx})

\* SUM(consumption) over the rows of rs with Key(row) = k
GroupSum(rs, Key(_), k) ==
    SumSeq(Column(SelectSeq(rs, LAMBDA r : Key(r) = k), "consumption"))

DayKey(r) == r.date
MonthKey(r) == <<MonthOf(r.date), 0>>

\* variant: daily.reverse() left out
DailyRowsNotReversed(rs) ==
    LET keys == {DayKey(rs[i]) : i \in 1..Len(rs)}
        top == LimitOffset(SortDesc(keys), DailyLimit, 0)
    IN  [i \in 1..Len(top) |-> <<top[i], GroupSum(rs, DayKey, top[i])>>]

\* SELECT SUBSTR(date,1,10), SUM(consumption) ... GROUP BY 1 ORDER BY 1 DESC
\* LIMIT 7, then daily.reverse()
DailyRows(rs) ==
    LET keys == {DayKey(rs[i]) : i \in 1..Len(rs)}
        top == LimitOffset(SortDesc(keys), DailyLimit, 0)
    IN  Reverse([i \in 1..Len(top) |-> <<top[i], GroupSum(rs, DayKey, top[i])>>])

\* variant: the WHERE date LIKE ? clause left out
MonthlyRowsAllMonths(rs, month) ==
    LET keys == {MonthKey(rs[i]) : i \in 1..Len(rs)}
        ord == SortDesc(keys)
    IN  [i \in 1..Len(ord) |-> <<ord[i][1], GroupSum(rs, MonthKey, ord[i])>>]

\* SELECT SUBSTR(date,1,7), SUM(consumption) ... WHERE date LIKE month%
\* GROUP BY SUBSTR(date,1,7)
MonthlyRows(rs, month) ==
    LET inMonth == SelectSeq(rs, LAMBDA r : MonthOf(r.date) = month)
        keys == {MonthKey(inMonth[i]) : i \in 1..Len(inMonth)}
        ord == SortDesc(keys)
    IN  [i \in 1..Len(ord) |-> <<ord[i][1], GroupSum(inMonth, MonthKey, ord[i])>>]

\* IFNULL(SUM(consumption),0) ... WHERE date LIKE prefix%
SumWhere(rs, Match(_)) == SumSeq(Column(SelectSeq(rs, Match), "consumption"))

\* [round(r[1], 2) for r in rows]: every sequence the roundings can give
RECURSIVE RoundedValues(_)
RoundedValues(rows) ==
    IF rows = <<>> THEN {<<>>}
    ELSE {<<x>> \o rest : x \in Round2(Head(rows)[2], 10), rest \in RoundedValues(Tail(rows))}

EmptyView ==
    [open_alerts |-> 0, total_readings |-> 0, today_consumption |-> 0,
     month_consumption |-> 0, daily_labels |-> <<>>, daily_values |-> <<>>,
     month_labels |-> <<>>, month_values |-> <<>>]

\* the values home() hands to the template
Views(rs, als, t) ==
    LET today == DateOf(t)
        month == MonthOf(today)
        daily == DailyRows(rs)
        monthly == MonthlyRows(rs, month)
        monthSum == SumWhere(rs, LAMBDA r : MonthOf(r.date) = month)
        \* round() of one sum gives one value: the month total and the month's
        \* entry are the same sum
        View(tc, mc, dv, mv) ==
            [open_alerts |-> Len(SelectSeq(als, LAMBDA a : a.status = "OPEN")),
             total_readings |-> Len(rs),
             today_consumption |-> tc,
             month_consumption |-> mc,
             daily_labels |-> [i \in 1..Len(daily) |-> daily[i][1]],
             daily_values |-> dv,
             month_labels |-> [i \in 1..Len(monthly) |-> monthly[i][1]],
             month_values |-> mv]
    IN  UNION {{View(tc, mc, dv, mv) :
                    tc \in Round2(SumWhere(rs, LAMBDA r : r.date = today), 10),
                    dv \in RoundedValues(daily),
                    mv \in {x \in RoundedValues(monthly) :
                              \A i \in 1..Len(x) : monthly[i][2] = monthSum => x[i] = mc}} :
               mc \in Round2(monthSum, 10)}

\* ---------------------------------------------------------- alert lifecycle
\* UPDATE alerts SET ... WHERE id=?  (sqlite3 refuses a statement naming a
\* column the table does not have: OperationalError, nothing is written)
Executes(assigns) == DOMAIN assigns \subseteq AlertColumns

UpdateWhereId(rows, id, assigns) ==
    [i \in 1..Len(rows) |->
        IF rows[i].id = id
        THEN [c \in DOMAIN rows[i] |-> IF c \in DOMAIN assigns THEN assigns[c] ELSE rows[i][c]]
        ELSE rows[i]]

AckAssigns(t) ==
    [status |-> "ACKNOWLEDGED", acknowledged_by |-> "Operator", acknowledged_at |-> DateOf(t)]

CloseAssigns(t) ==
    [status |-> "CLOSED", closed_by |-> "Operator", closed_at |-> DateOf(t)]

StatusOf(rows, id) ==
    LET hit == SelectSeq(rows, LAMBDA a : a.id = id)
    IN  IF hit = <<>> THEN NULL ELSE hit[1].status

\* ------------------------------------------------------------------- state
Resp(op, id, prev, result, v) ==
    [op |-> op, id |-> id, prev |-> prev, result |-> result, view |-> v]

NoResp == Resp("none", 0, NULL, "ok", EmptyView)

Init ==
    /\ readings = <<>>
    /\ alerts = <<>>
    /\ now = 1
    /\ pc = [p \in Procs |-> "idle"]
    /\ req_meter = [p \in Procs |-> NULL]
    /\ today_val = [p \in Procs |-> 0]
    /\ avg = [p \in Procs |-> <<0, 1>>]
    /\ checked = <<>>
    /\ last = NoResp

Return(p) ==
    /\ pc' = [pc EXCEPT ![p] = "idle"]
    /\ req_meter' = [req_meter EXCEPT ![p] = NULL]
    /\ today_val' = [today_val EXCEPT ![p] = 0]
    /\ avg' = [avg EXCEPT ![p] = <<0, 1>>]

\* add_reading, POST: INSERT INTO readings ...; d.commit()
InsertReading(p, m, in, maxR) ==
    /\ pc[p] = "idle"
    /\ Len(readings) < maxR
    /\ readings' = Append(readings, NewReading(Len(readings) + 1, m, DateOf(now), in[1], in[2]))
    /\ pc' = [pc EXCEPT ![p] = "last"]
    /\ req_meter' = [req_meter EXCEPT ![p] = m]
    /\ checked' = Append(checked, 0)
    /\ last' = Resp("add_reading", 0, NULL, "ok", EmptyView)
    /\ UNCHANGED <<alerts, now, today_val, avg>>

\* check_abnormal: the first SELECT and "if not last: return"
ReadLast(p) ==
    /\ pc[p] = "last"
    /\ LET l == LastReading(readings, req_meter[p])
       IN  IF l = <<>>
           THEN Return(p) /\ UNCHANGED checked
           ELSE /\ today_val' = [today_val EXCEPT ![p] = l[1].consumption]
                /\ checked' = [checked EXCEPT ![l[1].id] = @ + 1]
                /\ pc' = [pc EXCEPT ![p] = "avg"]
                /\ UNCHANGED <<req_meter, avg>>
    /\ last' = Resp("add_reading", 0, NULL, "ok", EmptyView)
    /\ UNCHANGED <<readings, alerts, now>>

\* check_abnormal: the AVG query, "if avg <= 0: return", percent, threshold
ReadAvg(p) ==
    /\ pc[p] = "avg"
    /\ LET a == AvgOf(AvgWindow(readings, req_meter[p]))
       IN  IF IsAbnormal(today_val[p], a)
           THEN /\ avg' = [avg EXCEPT ![p] = a]
                /\ pc' = [pc EXCEPT ![p] = "alert"]
                /\ UNCHANGED <<req_meter, today_val>>
           ELSE Return(p)
    /\ last' = Resp("add_reading", 0, NULL, "ok", EmptyView)
    /\ UNCHANGED <<readings, alerts, now, checked>>

\* check_abnormal: INSERT INTO alerts ...; d.commit()
InsertAlert(p) ==
    /\ pc[p] = "alert"
    /\ \E ra \in RoundedAvg(avg[p]), rp \in RoundedPercent(today_val[p], avg[p]) :
          alerts' = Append(alerts, NewAlert(Len(alerts) + 1, req_meter[p], DateOf(now),
                                            today_val[p], ra, rp))
    /\ Return(p)
    /\ last' = Resp("add_reading", 0, NULL, "ok", EmptyView)
    /\ UNCHANGED <<readings, now, checked>>

\* add_reading run without any other request in between
AddReadingSeq(m, in, maxR) ==
    /\ \A p \in Procs : pc[p] = "idle"
    /\ Len(readings) < maxR
    /\ LET rs == Append(readings, NewReading(Len(readings) + 1, m, DateOf(now), in[1], in[2]))
           l == LastReading(rs, m)
           a == AvgOf(AvgWindow(rs, m))
       IN  /\ readings' = rs
           /\ checked' = IF l = <<>> THEN Append(checked, 0)
                         ELSE [Append(checked, 0) EXCEPT ![l[1].id] = @ + 1]
           /\ IF l # <<>> /\ IsAbnormal(l[1].consumption, a)
              THEN \E ra \in RoundedAvg(a), rp \in RoundedPercent(l[1].consumption, a) :
                      alerts' = Append(alerts, NewAlert(Len(alerts) + 1, m, DateOf(now),
                                                        l[1].consumption, ra, rp))
              ELSE alerts' = alerts
    /\ last' = Resp("add_reading", 0, NULL, "ok", EmptyView)
    /\ UNCHANGED <<now, pc, req_meter, today_val, avg>>

acknowledge_alert(id) ==
    /\ IF Executes(AckAssigns(now))
       THEN /\ alerts' = UpdateWhereId(alerts, id, AckAssigns(now))
            /\ last' = Resp("ack", id, StatusOf(alerts, id), "ok", EmptyView)
       ELSE /\ alerts' = alerts
            /\ last' = Resp("ack", id, StatusOf(alerts, id), "error", EmptyView)
    /\ UNCHANGED <<readings, now, pc, req_meter, today_val, avg, checked>>

close_alert(id) ==
    /\ IF Executes(CloseAssigns(now))
       THEN /\ alerts' = UpdateWhereId(alerts, id, CloseAssigns(now))
            /\ last' = Resp("close", id, StatusOf(alerts, id), "ok", EmptyView)
       ELSE /\ alerts' = alerts
            /\ last' = Resp("close", id, StatusOf(alerts, id), "error", EmptyView)
    /\ UNCHANGED <<readings, now, pc, req_meter, today_val, avg, checked>>

home ==
    /\ \E v \in Views(readings, alerts, now) : last' = Resp("home", 0, NULL, "ok", v)
    /\ UNCHANGED <<readings, alerts, now, pc, req_meter, today_val, avg, checked>>

\* the wall clock reaches the next calendar day
Tick(maxDay) ==
    /\ now < maxDay
    /\ now' = now + 1
    /\ last' = NoResp
    /\ UNCHANGED <<readings, alerts, pc, req_meter, today_val, avg, checked>>

\* concurrent requests (Flask serves each request on its own thread)
Next ==
    \/ \E p \in Procs, m \in Meters, in \in Inputs : InsertReading(p, m, in, MaxReadings)
    \/ \E p \in Procs : ReadLast(p)
    \/ \E p \in Procs : ReadAvg(p)
    \/ \E p \in Procs : InsertAlert(p)
    \/ \E id \in AlertIds : acknowledge_alert(id)
    \/ \E id \in AlertIds : close_alert(id)
    \/ home

Spec == Init /\ [][Next]_vars

\* power.db is kept between runs (CREATE TABLE IF NOT EXISTS): the tables
\* after h readings of 10.0 on M1 (none of them raised an alert)
SeqHistory(h) == [i \in 1..h |-> NewReading(i, "M1", DateOf(1), 0, 10000)]

InitSeq ==
    /\ \E h \in {0, SeqHistoryLen} :
          /\ readings = SeqHistory(h)
          /\ checked = [i \in 1..h |-> 1]
          /\ last = IF h = 0 THEN NoResp ELSE Resp("add_reading", 0, NULL, "ok", EmptyView)
    /\ alerts = <<>>
    /\ now = 1
    /\ pc = [p \in Procs |-> "idle"]
    /\ req_meter = [p \in Procs |-> NULL]
    /\ today_val = [p \in Procs |-> 0]
    /\ avg = [p \in Procs |-> <<0, 1>>]

\* the number of readings the run started with
StoredSeq ==
    IF Len(readings) >= SeqHistoryLen
       /\ SubSeq(readings, 1, SeqHistoryLen) = SeqHistory(SeqHistoryLen)
    THEN SeqHistoryLen ELSE 0

\* add_reading requests of one meter, one after another
NextSeq ==
    \E m \in SeqMeters, in \in SeqInputs : AddReadingSeq(m, in, StoredSeq + MaxSeqReadings)

SpecSeq == InitSeq /\ [][NextSeq]_vars

\* the table after h days with one reading a day, M1 and M2 in turn, each meter's
\* consumption constant (so that no check raised an alert)
History(h) ==
    [i \in 1..h |-> IF i % 2 = 1 THEN NewReading(i, "M1", DateOf(i), 0, 1004)
                                 ELSE NewReading(i, "M2", DateOf(i), 0, 4)]

InitDash ==
    /\ \E h \in {0, HistoryDays} :
          /\ readings = History(h)
          /\ checked = [i \in 1..h |-> 1]
          /\ now = IF h = 0 THEN 1 ELSE h
          /\ last = IF h = 0 THEN NoResp ELSE Resp("add_reading", 0, NULL, "ok", EmptyView)
    /\ alerts = <<>>
    /\ pc = [p \in Procs |-> "idle"]
    /\ req_meter = [p \in Procs |-> NULL]
    /\ today_val = [p \in Procs |-> 0]
    /\ avg = [p \in Procs |-> <<0, 1>>]

\* readings entered over several days, and the dashboard
\* the number of readings the run started with
Stored ==
    IF Len(readings) >= HistoryDays /\ SubSeq(readings, 1, HistoryDays) = History(HistoryDays)
    THEN HistoryDays ELSE 0

NextDash ==
    \/ \E m \in Meters, in \in DashInputs : AddReadingSeq(m, in, Stored + MaxDashReadings)
    \/ home
    \/ Tick(Stored + MaxDashDay)

SpecDash == InitDash /\ [][NextDash]_vars

\* ------------------------------------------------------------ properties
Consumptions(rs) == [i \in 1..Len(rs) |-> rs[i].consumption]

ReadingsOf(rs, m) == {i \in 1..Len(rs) : rs[i].meter_id = m}
AlertsOf(als, m) == {i \in 1..Len(als) : als[i].meter_id = m}

\* the readings of row i's meter that the trailing average of row i is taken
\* over: the (up to) 7 with the largest ids below i
Preceding(rs, i) ==
    LET earlier == {j \in 1..(i - 1) : rs[j].meter_id = rs[i].meter_id}
    IN  {j \in earlier : Cardinality({k \in earlier : k > j}) < 7}

RECURSIVE SumOver(_, _)
SumOver(rs, S) ==
    IF S = {} THEN 0
    ELSE LET j == CHOOSE x \in S : TRUE IN rs[j].consumption + SumOver(rs, S \ {j})

\* reading i deviates upwards by 30% or more from its trailing average
Deviates(rs, i) ==
    LET P == Preceding(rs, i)
        sum == SumOver(rs, P)
        n == Cardinality(P)
    IN  /\ P # {}
        /\ sum > 0
        /\ (rs[i].consumption * n - sum) * 100 >= 30 * sum

Tens == [i \in 1..7 |-> 10000]

\* the alert, if any, that the request inserting the last row of rs' made
AlertAsClaimed(exact) ==
    LET i == Len(readings')
        P == Preceding(readings', i)
        sum == SumOver(readings', P)
        n == Cardinality(P)
        c == readings'[i].consumption
    IN  IF Deviates(readings', i)
        THEN /\ Len(alerts') = Len(alerts) + 1
             /\ SubSeq(alerts', 1, Len(alerts)) = alerts
             /\ LET a == alerts'[Len(alerts')]
                IN  /\ a.status = "OPEN"
                    /\ a.meter_id = readings'[i].meter_id
                    /\ a.consumption = c
                    /\ IF exact
                       THEN /\ a.average * 10 * n = sum
                            /\ a.percentage * sum = (c * n - sum) * 10000
                       ELSE /\ 2 * Abs(a.average * 10 * n - sum) <= 10 * n
                            /\ 2 * Abs(a.percentage * sum - (c * n - sum) * 10000) <= sum
        ELSE alerts' = alerts

Examples ==
    /\ Consumptions(readings') = Tens \o <<20000>> =>
          /\ Len(alerts') = 1
          /\ alerts'[1].average = 1000
          /\ alerts'[1].percentage = 10000
    /\ Consumptions(readings') = Tens \o <<12000>> => alerts' = <<>>

\* C1 as stated: a sequential add_reading creates exactly one alert iff the
\* meter has an earlier reading, the mean of the up to 7 preceding readings
\* is > 0 and the deviation is >= 30%, otherwise none; the alert is OPEN and
\* records the meter, the consumption, the average and the percentage
\* themselves.
C1_Claimed == [][Len(readings') = Len(readings) + 1 => AlertAsClaimed(TRUE) /\ Examples]_vars

\* C1 amended: the same, the alert recording the average and the percentage
\* each rounded to 2 decimals.
C1_SequentialAlert ==
    [][Len(readings') = Len(readings) + 1 => AlertAsClaimed(FALSE) /\ Examples]_vars

C1_Witness ==
    /\ Consumptions(readings) = Tens \o <<20000>>
    /\ Len(alerts) = 1
    /\ alerts[1].average = 1000

\* C2: a meter with fewer than 2 readings has no alert.
C2_NoAlertBelowTwoReadings ==
    \A m \in Meters : Cardinality(ReadingsOf(readings, m)) < 2 => AlertsOf(alerts, m) = {}

C2_Witness ==
    /\ \A p \in Procs : pc[p] = "idle"
    /\ \E i \in 1..Len(readings) :
          /\ checked[i] >= 1
          /\ Cardinality(ReadingsOf(readings, readings[i].meter_id)) = 1
          /\ AlertsOf(alerts, readings[i].meter_id) = {}
    /\ alerts # <<>>

\* C3: every stored reading has consumption = closing - opening, and no step
\* changes or removes a stored reading.
C3_ReadingsAppendOnly ==
    [][/\ Len(readings') >= Len(readings)
       /\ \A i \in 1..Len(readings) : readings'[i] = readings[i]
       /\ \A i \in 1..Len(readings') :
             readings'[i].consumption = readings'[i].closing - readings'[i].opening]_vars

C3_Witness ==
    /\ Len(readings) >= 2
    /\ readings[1].closing < readings[1].opening
    /\ readings[1].consumption = readings[1].closing - readings[1].opening
    /\ last.op \in {"home", "ack", "close"}
    /\ alerts # <<>>

\* the alert with the given id (the lifecycle requests name one by id)
AlertById(id) == CHOOSE a \in {alerts[i] : i \in 1..Len(alerts)} : a.id = id

HasValue(a, c) == c \in DOMAIN a /\ a[c] # NULL

\* C4: acknowledge_alert on an OPEN alert leaves it ACKNOWLEDGED with a
\* non-null acknowledger and time, close_alert on an OPEN or ACKNOWLEDGED
\* alert leaves it CLOSED with a non-null closer and time, and both succeed.
C4_Claimed ==
    /\ last.op = "ack" /\ last.prev = "OPEN" =>
          /\ last.result = "ok"
          /\ AlertById(last.id).status = "ACKNOWLEDGED"
          /\ HasValue(AlertById(last.id), "acknowledged_by")
          /\ HasValue(AlertById(last.id), "acknowledged_at")
    /\ last.op = "close" /\ last.prev \in {"OPEN", "ACKNOWLEDGED"} =>
          /\ last.result = "ok"
          /\ AlertById(last.id).status = "CLOSED"
          /\ HasValue(AlertById(last.id), "closed_by")
          /\ HasValue(AlertById(last.id), "closed_at")

\* C5: acknowledge_alert and close_alert are accepted on an alert in any
\* status and set the status they name, whatever it was before.
C5_Claimed ==
    last.op \in {"ack", "close"} /\ last.prev \in {"OPEN", "ACKNOWLEDGED", "CLOSED"} =>
        /\ last.result # "error"
        /\ AlertById(last.id).status = IF last.op = "ack" THEN "ACKNOWLEDGED" ELSE "CLOSED"

\* C6: under every interleaving of add_reading requests no reading is
\* evaluated by more than one check, and a meter that has readings has at
\* most (number of readings - 1) alerts.
C6_Claimed ==
    /\ \A i \in 1..Len(checked) : checked[i] <= 1
    /\ \A m \in Meters :
          ReadingsOf(readings, m) # {} =>
              Cardinality(AlertsOf(alerts, m)) <= Cardinality(ReadingsOf(readings, m)) - 1

\* the check that inserts the new last row of alerts'
Creator(p) ==
    /\ pc[p] = "alert"
    /\ pc'[p] = "idle"
    /\ alerts'[Len(alerts')].meter_id = req_meter[p]
    /\ alerts'[Len(alerts')].consumption = today_val[p]

\* C7 as stated: every alert stored has a recorded average > 0, a recorded
\* consumption strictly greater than that average and a recorded percentage
\* >= 30, and was not created for a consumption at or below the trailing
\* average.
C7_Claimed ==
    [][Len(alerts') = Len(alerts) + 1 =>
          LET a == alerts'[Len(alerts')]
          IN  /\ a.average > 0
              /\ a.consumption > a.average * 10
              /\ a.percentage >= 3000
              /\ \E p \in Procs : Creator(p) /\ today_val[p] * avg[p][2] > avg[p][1]]_vars

\* C7 amended: every alert is created from a trailing average > 0 and a
\* consumption strictly greater than that average, and has a recorded
\* percentage >= 30; its recorded average is the trailing average rounded to
\* 2 decimals, hence >= 0.
C7_UpwardOnly ==
    [][Len(alerts') = Len(alerts) + 1 =>
          LET a == alerts'[Len(alerts')]
          IN  /\ a.average >= 0
              /\ a.consumption > 0
              /\ a.percentage >= 3000
              /\ \E p \in Procs :
                    /\ Creator(p)
                    /\ avg[p][1] > 0
                    /\ today_val[p] * avg[p][2] > avg[p][1]
                    /\ 2 * Abs(a.average * 10 * avg[p][2] - avg[p][1]) <= 10 * avg[p][2]]_vars

C7_Witness ==
    /\ \E i \in 1..Len(alerts) : alerts[i].average = 0 /\ alerts[i].consumption > 0
    /\ \E i \in 1..Len(readings) : readings[i].consumption < 0 /\ checked[i] >= 1
    /\ \A p \in Procs : pc[p] = "idle"
    /\ Len(alerts) < Len(readings)

Immutable == {"id", "meter_id", "consumption", "average", "percentage"}
Lifecycle == {"status", "acknowledged_by", "acknowledged_at", "closed_by", "closed_at"}

\* C8: alerts are appended only by the anomaly check, with status OPEN, are
\* never deleted, and are changed only by acknowledge_alert and close_alert,
\* in their lifecycle fields and for the alert whose id is given; the status
\* is one of OPEN, ACKNOWLEDGED, CLOSED.
C8_AlertsLifecycleOnly ==
    [][/\ Len(alerts') >= Len(alerts)
       /\ Len(alerts') > Len(alerts) => last'.op = "add_reading" /\ Len(alerts') = Len(alerts) + 1
       /\ \A i \in 1..Len(alerts') :
             /\ alerts'[i].status \in {"OPEN", "ACKNOWLEDGED", "CLOSED"}
             /\ alerts'[i].id = i
             /\ i > Len(alerts) => alerts'[i].status = "OPEN"
       /\ \A i \in 1..Len(alerts) :
             /\ \A c \in Immutable : alerts'[i][c] = alerts[i][c]
             /\ alerts'[i] # alerts[i] =>
                   /\ last'.op \in {"ack", "close"}
                   /\ last'.id = alerts[i].id
                   /\ \A c \in DOMAIN alerts[i] \ Lifecycle : alerts'[i][c] = alerts[i][c]]_vars

C8_Witness ==
    /\ Len(alerts) >= 2
    /\ last.op \in {"ack", "close"}
    /\ last.prev # NULL
    /\ \E i \in 1..Len(alerts) : alerts[i].id = last.id /\ alerts[i].status = "OPEN"

Days == {readings[i].date : i \in 1..Len(readings)}
OnDay(d) == {i \in 1..Len(readings) : readings[i].date = d}
InMonth(m) == {i \in 1..Len(readings) : readings[i].date[1] = m}
Earlier(d, e) == d[1] < e[1] \/ (d[1] = e[1] /\ d[2] < e[2])

\* the (up to) 7 most recent days that have a reading
RecentDays == {d \in Days : Cardinality({e \in Days : Earlier(d, e)}) < 7}

\* v is x thousandths rounded to hundredths
IsRounded(v, x) == 2 * Abs(v * 10 - x) <= 10

DailyLabelsAsClaimed ==
    LET L == last.view.daily_labels
    IN  /\ Len(L) = Cardinality(RecentDays)
        /\ {L[i] : i \in 1..Len(L)} = RecentDays
        /\ \A i \in 1..Len(L), j \in 1..Len(L) : i < j => Earlier(L[i], L[j])
        /\ Len(last.view.daily_values) = Len(L)

\* C9 as stated: the daily series holds exactly the (up to) 7 most recent
\* days with readings, in ascending order, each with the sum of consumption
\* of all readings of that day.
C9_Claimed ==
    last.op = "home" =>
        /\ DailyLabelsAsClaimed
        /\ \A i \in 1..Len(last.view.daily_labels) :
              last.view.daily_values[i] * 10 = SumOver(readings, OnDay(last.view.daily_labels[i]))

\* C9 amended: the same, each day paired with that sum rounded to 2 decimals.
C9_DailySeries ==
    last.op = "home" =>
        /\ DailyLabelsAsClaimed
        /\ \A i \in 1..Len(last.view.daily_labels) :
              IsRounded(last.view.daily_values[i],
                        SumOver(readings, OnDay(last.view.daily_labels[i])))

C9_Witness ==
    /\ last.op = "home"
    /\ Cardinality(Days) > 7
    /\ Len(last.view.daily_labels) = 7
    /\ \E d \in RecentDays : \E i \in OnDay(d), j \in OnDay(d) :
          readings[i].meter_id # readings[j].meter_id
    /\ \E t \in 1..now : DateOf(t) \notin Days /\ Earlier(last.view.daily_labels[1], DateOf(t))

CurrentMonth == DateOf(now)[1]
DaysOfCurrentMonth == {d \in Days : d[1] = CurrentMonth}

====
